---- MODULE Spec2Model ----
(***************************************************************************)
(* Model of the arithmetic practice game: the session controller           *)
(* (AppComponent, src/src/app.component.ts) and the problem generator      *)
(* (MathGameService, src/unnamed/part_000).                                *)
(*                                                                         *)
(* Every public method of the component, the setInterval tick and the      *)
(* setTimeout callback are one action each; private methods are operators  *)
(* the actions are built from.  Signals are variables of the same name.    *)
(*                                                                         *)
(* Time is not measured: a tick of the running interval and a run of an    *)
(* outstanding setTimeout callback may happen in any order with the        *)
(* commands.  The callbacks are all the same closure, so their number is   *)
(* all that is kept of them.                                               *)
(***************************************************************************)
EXTENDS Integers, Sequences, FiniteSets, TLC

VARIABLES
    gameState,          \* signal<GameState>                       (line 57)
    gameMode,           \* signal<GameMode>                        (line 58)
    level,              \* signal(1)                               (line 59)
    lives,              \* signal(3)                               (line 60)
    score,              \* signal(0)                               (line 61)
    scoreInLevel,       \* signal(0)                               (line 62)
    currentOperation,   \* signal<Operation>                       (line 64)
    currentProblem,     \* signal<Problem | null>                  (line 65)
    userAnswer,         \* signal('')                              (line 66)
    userFactor1,        \* signal('')                              (line 67)
    userFactor2,        \* signal('')                              (line 68)
    feedbackMessage,    \* signal('')                              (line 70)
    feedbackType,       \* signal<FeedbackType>                    (line 71)
    highScores,         \* signal<AllHighScores>                   (line 73)
    isNewHighScore,     \* signal(false)                           (line 75)
    timerInterval,      \* TRUE iff the setInterval handle is set  (line 77)
    timerValue,         \* signal(0)                               (line 78)
    initialTimerValue,  \* signal(10)                              (line 79)
    pendingNewProblem,  \* number of setTimeout(() => newProblem()) callbacks not yet run
    storage,            \* the localStorage item under HIGH_SCORES_KEY
    setItemCalled,      \* TRUE iff the last step called localStorage.setItem
    sessions            \* number of sessions started so far (bounds the exploration)

vars == <<gameState, gameMode, level, lives, score, scoreInLevel, currentOperation,
          currentProblem, userAnswer, userFactor1, userFactor2, feedbackMessage,
          feedbackType, highScores, isNewHighScore, timerInterval, timerValue,
          initialTimerValue, pendingNewProblem, storage, setItemCalled, sessions>>

(***************************************************************************)
(* Bounds of the exploration.                                              *)
(***************************************************************************)
MaxLevel == 2        \* a level-up beyond this level is not explored
MaxPending == 1      \* at most this many delayed callbacks outstanding
MaxSessions == 2     \* at most this many sessions started
RandSpan == 1        \* the games explored draw from the first RandSpan values of a random range
MsgChoices == 1      \* getRandomMessage picks among the first MsgChoices messages

(***************************************************************************)
(* Program constants.                                                      *)
(***************************************************************************)
POINTS_TO_LEVEL_UP == 5
MaxHighScores == 5
InitialLives == 3
MinDuration == 5
BaseDuration == 12

Min2(a, b) == IF a < b THEN a ELSE b
Max2(a, b) == IF a > b THEN a ELSE b

GameStates == {"menu", "challengeMenu", "playing", "gameOver", "highScores"}
GameModes == {"classic", "challenge"}
Operations == {"add", "subtract", "multiply", "divide", "factor", "random"}
basicOps == {"add", "subtract", "multiply", "divide"}

(***************************************************************************)
(* Text typed by the player.  A string is a sequence of characters, so     *)
(* that parseInt is computed the way JavaScript computes it.               *)
(***************************************************************************)
EmptyString == << >>
Inputs == {EmptyString, <<"1">>, <<"2">>}

DigitChars == {"0", "1", "2", "3", "4", "5", "6", "7", "8", "9"}
DigitVal(c) ==
    CASE c = "0" -> 0 [] c = "1" -> 1 [] c = "2" -> 2 [] c = "3" -> 3 [] c = "4" -> 4
      [] c = "5" -> 5 [] c = "6" -> 6 [] c = "7" -> 7 [] c = "8" -> 8 [] c = "9" -> 9

\* The result of parseInt: a number, or NaN.
NaN == [nan |-> TRUE, val |-> 0]
Num(n) == [nan |-> FALSE, val |-> n]

RECURSIVE SkipSpaces(_)
SkipSpaces(s) == IF s # << >> /\ Head(s) = " " THEN SkipSpaces(Tail(s)) ELSE s

\* The value of the longest prefix of decimal digits of s, given the value acc
\* of the digits read so far.
RECURSIVE DigitsPrefix(_, _)
DigitsPrefix(s, acc) ==
    IF s # << >> /\ Head(s) \in DigitChars
    THEN DigitsPrefix(Tail(s), 10 * acc + DigitVal(Head(s)))
    ELSE acc

\* parseInt(s, 10): leading white space is skipped, an optional sign is read,
\* then the longest run of digits; NaN when there is no digit.
parseInt(str) ==
    LET t == SkipSpaces(str)
        neg == t # << >> /\ Head(t) = "-"
        u == IF t # << >> /\ Head(t) \in {"-", "+"} THEN Tail(t) ELSE t
    IN  IF u = << >> \/ Head(u) \notin DigitChars
        THEN NaN
        ELSE Num(IF neg THEN 0 - DigitsPrefix(u, 0) ELSE DigitsPrefix(u, 0))

(***************************************************************************)
(* MathGameService: the problem generator.                                 *)
(* A Problem is [type, answer, num1, num2]; answer is <<n>> for a number   *)
(* and <<f1, f2>> for a factor pair; num1 = num2 = 0 stands for the        *)
(* operands a factor problem does not have.  The question text is a        *)
(* function of the other fields and is left out.                           *)
(***************************************************************************)
NoProblem == [type |-> "null", answer |-> << >>, num1 |-> 0, num2 |-> 0]

RECURSIVE Pow10(_)
Pow10(n) == IF n = 0 THEN 1 ELSE 10 * Pow10(n - 1)

\* Math.floor(Math.random() * (max - min + 1)) + min: any integer of min..max.
\* span is the part of the range of Math.random that is explored: the first
\* span values of min..max.
getRandomInt(min, max, span) == min..Min2(max, min + span - 1)

generateAdditionProblem(lvl, span) ==
    LET max == Pow10(((lvl - 1) \div 3) + 1)
    IN  {[type |-> "add", answer |-> <<n1 + n2>>, num1 |-> n1, num2 |-> n2] :
            n1 \in getRandomInt(1, max, span), n2 \in getRandomInt(1, max, span)}

\* generateSubtractionProblem with num2 drawn from 1..max instead of 1..num1.
generateSubtractionProblem_AnyNum2(lvl, span) ==
    LET max == Pow10(((lvl - 1) \div 3) + 1)
    IN  {[type |-> "subtract", answer |-> <<n1 - n2>>, num1 |-> n1, num2 |-> n2] :
            n1 \in getRandomInt(1, max, span), n2 \in getRandomInt(1, max, span)}

generateSubtractionProblem(lvl, span) ==
    LET max == Pow10(((lvl - 1) \div 3) + 1)
    IN  UNION {{[type |-> "subtract", answer |-> <<n1 - n2>>, num1 |-> n1, num2 |-> n2] :
                    n2 \in getRandomInt(1, n1, span)} : n1 \in getRandomInt(1, max, span)}

generateMultiplicationProblem(lvl, span) ==
    LET num1Max == (lvl \div 2) + 5
        num2Max == (lvl \div 3) + 4
    IN  {[type |-> "multiply", answer |-> <<n1 * n2>>, num1 |-> n1, num2 |-> n2] :
            n1 \in getRandomInt(1, num1Max, span), n2 \in getRandomInt(1, num2Max, span)}

generateDivisionProblem(lvl, span) ==
    LET answerMax == (lvl \div 3) + 5
        num2Max == (lvl \div 2) + 5
    IN  {[type |-> "divide", answer |-> <<a>>, num1 |-> a * n2, num2 |-> n2] :
            a \in getRandomInt(1, answerMax, span), n2 \in getRandomInt(1, num2Max, span)}

generateFactorizationProblem(lvl, span) ==
    LET maxFactor == (lvl \div 2) + 6
    IN  {[type |-> "factor", answer |-> <<f1, f2>>, num1 |-> 0, num2 |-> 0] :
            f1 \in getRandomInt(2, maxFactor, span),
            f2 \in getRandomInt(2, (lvl \div 3) + 5, span)}

\* The problems generateProblem(level, op) can return; for 'random' it throws,
\* which leaves no problem to return: the empty set.
generateProblem(lvl, op, span) ==
    CASE op = "add" -> generateAdditionProblem(lvl, span)
      [] op = "subtract" -> generateSubtractionProblem(lvl, span)
      [] op = "multiply" -> generateMultiplicationProblem(lvl, span)
      [] op = "divide" -> generateDivisionProblem(lvl, span)
      [] op = "factor" -> generateFactorizationProblem(lvl, span)
      [] op = "random" -> {}

\* checkAnswer accepting a factor pair only when it is the generated pair.
checkAnswer_GeneratedPair(problem, sub) ==
    IF problem.type = "factor"
    THEN IF sub.factor1 = EmptyString \/ sub.factor2 = EmptyString
         THEN FALSE
         ELSE LET f1 == parseInt(sub.factor1)
                  f2 == parseInt(sub.factor2)
              IN  /\ ~f1.nan
                  /\ ~f2.nan
                  /\ f1.val = problem.answer[1]
                  /\ f2.val = problem.answer[2]
    ELSE LET answer == parseInt(sub.answer)
         IN  ~answer.nan /\ answer.val = problem.answer[1]

\* checkAnswer(problem, userAnswer); the submission is [answer, factor1, factor2],
\* of which submitAnswer passes either the pair or the single string.
checkAnswer(problem, sub) ==
    IF problem.type = "factor"
    THEN IF sub.factor1 = EmptyString \/ sub.factor2 = EmptyString
         THEN FALSE
         ELSE LET f1 == parseInt(sub.factor1)
                  f2 == parseInt(sub.factor2)
                  expectedProduct == problem.answer[1] * problem.answer[2]
              IN  /\ ~f1.nan
                  /\ ~f2.nan
                  /\ f1.val * f2.val = expectedProduct
    ELSE LET answer == parseInt(sub.answer)
         IN  ~answer.nan /\ answer.val = problem.answer[1]

(***************************************************************************)
(* The high-score table.  AllHighScores maps a mode to ModeScores, which   *)
(* maps an operation to a list of numbers; a missing key reads as [] at    *)
(* its only reader (`allScores[mode][operation] ?? []`), so ModeScores is  *)
(* a total function and << >> stands for both.                             *)
(***************************************************************************)
EmptyModeScores == [op \in Operations |-> << >>]
EmptyTable == [mode \in GameModes |-> EmptyModeScores]

\* Math.min(...list) of a non-empty list.
RECURSIVE MinOf(_)
MinOf(list) ==
    IF Len(list) = 1 THEN list[1] ELSE Min2(list[1], MinOf(Tail(list)))

\* list with the element at index i removed.
RemoveAt(list, i) == [j \in 1..(Len(list) - 1) |-> IF j < i THEN list[j] ELSE list[j + 1]]

\* list.sort((a, b) => b - a): the same numbers in non-increasing order.
RECURSIVE SortDesc(_)
SortDesc(list) ==
    IF list = << >>
    THEN << >>
    ELSE LET i == CHOOSE k \in 1..Len(list) : \A j \in 1..Len(list) : list[k] >= list[j]
         IN  <<list[i]>> \o SortDesc(RemoveAt(list, i))

\* list.slice(0, n)
Slice0(list, n) == SubSeq(list, 1, Min2(n, Len(list)))

\* The condition of line 302.
Qualifies(currentModeScores, finalScore) ==
    \/ Len(currentModeScores) < MaxHighScores
    \/ finalScore > MinOf(currentModeScores)

\* The list of lines 303-305 without its slice(0, 5).
newHighScoresForOperation_NoSlice(currentModeScores, finalScore) ==
    SortDesc(Append(currentModeScores, finalScore))

\* The list of lines 303-305.
newHighScoresForOperation(currentModeScores, finalScore) ==
    Slice0(SortDesc(Append(currentModeScores, finalScore)), MaxHighScores)

(***************************************************************************)
(* localStorage.  The item is absent or holds JSON.stringify(table); the   *)
(* text is represented by the object it denotes, tagged as text.           *)
(***************************************************************************)
NoItem == [present |-> FALSE, text |-> EmptyTable]
JSONstringify(table) == [present |-> TRUE, text |-> table]
JSONparse(item) == item.text

\* A table earlier runs of the program may have left in storage: a full list,
\* a list one short of full, a short list.
FullList == <<130, 90, 50, 30, 20>>
SavedTable ==
    [EmptyTable EXCEPT !["classic"]["add"] = FullList,
                       !["challenge"]["add"] = <<130, 90, 50, 30>>,
                       !["classic"]["multiply"] = <<10>>]
StoredItems == {NoItem, JSONstringify(SavedTable)}

\* loadHighScores: the table after ngOnInit.
loadHighScores(item) ==
    IF item.present
    THEN LET parsed == JSONparse(item)
         IN  [mode \in GameModes |-> parsed[mode]]
    ELSE EmptyTable

(***************************************************************************)
(* Feedback: the message is [kind, arg]; arg is the index of a message     *)
(* picked at random, or the level a level-up message names.                *)
(***************************************************************************)
NumMotivationalMessages == 5
NumErrorMessages == 4

NoMessage == [kind |-> "", arg |-> 0]
getRandomMessage(kind, n) == {[kind |-> kind, arg |-> i] : i \in 1..Min2(n, MsgChoices)}

\* The explanation of handleIncorrectAnswer for a problem.
Explanation(problem) ==
    IF problem.type \in basicOps
    THEN {[kind |-> problem.type, arg |-> 0]}
    ELSE getRandomMessage("error", NumErrorMessages)

(***************************************************************************)
(* Private methods of the component, as the part of a step they perform.   *)
(***************************************************************************)
timerVars == <<timerInterval, timerValue, initialTimerValue>>
inputVars == <<userAnswer, userFactor1, userFactor2>>
feedbackVars == <<feedbackMessage, feedbackType>>
scoreVars == <<level, lives, score, scoreInLevel>>
tableVars == <<highScores, isNewHighScore, storage>>

\* clearTimer: the interval, if any, is cancelled (timerValue keeps its value).
clearTimer == timerInterval' = FALSE

\* The duration of line 327 without its lower limit.
Duration_NoClamp(lvl) == BaseDuration - (lvl \div 2)

\* The duration of line 327.
Duration(lvl) == Max2(MinDuration, BaseDuration - (lvl \div 2))

\* startTimer at level lvl.
startTimer(lvl) ==
    /\ initialTimerValue' = Duration(lvl)
    /\ timerValue' = Duration(lvl)
    /\ timerInterval' = TRUE

\* The operation of lines 144-148 with the re-draw of 'random' left out.
operationForProblem_NoRedraw(op) == {op}

\* The operation newProblem hands to the generator (lines 144-148).
operationForProblem(op) == IF op = "random" THEN basicOps ELSE {op}

\* newProblem, called with level lvl, mode mode and operation op in force.
\* When generateProblem throws, the statements after the call are not run.
newProblem(lvl, mode, op) ==
    /\ userAnswer' = EmptyString
    /\ userFactor1' = EmptyString
    /\ userFactor2' = EmptyString
    /\ feedbackMessage' = NoMessage
    /\ feedbackType' = "null"
    /\ \E opForProblem \in operationForProblem(op) :
          LET problems == generateProblem(lvl, opForProblem, RandSpan)
          IN  IF problems = {}
              THEN UNCHANGED <<currentProblem, timerVars>>
              ELSE /\ \E problem \in problems : currentProblem' = problem
                   /\ IF mode = "challenge"
                      THEN startTimer(lvl)
                      ELSE UNCHANGED timerVars

\* resetGame
resetGame ==
    /\ level' = 1
    /\ lives' = InitialLives
    /\ score' = 0
    /\ scoreInLevel' = 0
    /\ isNewHighScore' = FALSE

\* saveHighScores of the table t.
saveHighScores(t) ==
    /\ storage' = JSONstringify(t)
    /\ setItemCalled' = TRUE

\* What updateHighScores does past its early return for a score of 0.
recordScore ==
    LET currentModeScores == highScores[gameMode][currentOperation]
        qualifies == Qualifies(currentModeScores, score)
    IN  /\ highScores' =
              IF qualifies
              THEN [highScores EXCEPT ![gameMode][currentOperation] =
                       newHighScoresForOperation(currentModeScores, score)]
              ELSE highScores
        /\ isNewHighScore' = (qualifies \/ isNewHighScore)
        /\ IF isNewHighScore'
           THEN saveHighScores(highScores')
           ELSE /\ UNCHANGED storage
                /\ setItemCalled' = FALSE

\* updateHighScores without the early return of line 294.
updateHighScores_NoZeroCheck == recordScore

\* updateHighScores, with the score, mode and operation of the current state.
updateHighScores ==
    IF score = 0
    THEN /\ UNCHANGED tableVars
         /\ setItemCalled' = FALSE
    ELSE recordScore

\* gameOver
gameOver ==
    /\ clearTimer
    /\ updateHighScores
    /\ gameState' = "gameOver"

\* setTimeout(() => this.newProblem(), delay): one more callback outstanding.
scheduleNewProblem == pendingNewProblem' = pendingNewProblem + 1

\* levelUp without line 227.
levelUp_KeepLives ==
    /\ level' = level + 1
    /\ scoreInLevel' = 0
    /\ UNCHANGED lives
    /\ feedbackMessage' = [kind |-> "levelUp", arg |-> level + 1]
    /\ feedbackType' = "info"

\* levelUp
levelUp ==
    /\ level' = level + 1
    /\ scoreInLevel' = 0
    /\ lives' = InitialLives
    /\ feedbackMessage' = [kind |-> "levelUp", arg |-> level + 1]
    /\ feedbackType' = "info"

\* handleCorrectAnswer adding 10 points whatever the level.
handleCorrectAnswer_FlatPoints ==
    /\ score' = score + 10
    /\ IF scoreInLevel + 1 >= POINTS_TO_LEVEL_UP
       THEN levelUp
       ELSE /\ scoreInLevel' = scoreInLevel + 1
            /\ feedbackMessage' \in getRandomMessage("motivational", NumMotivationalMessages)
            /\ feedbackType' = "success"
            /\ UNCHANGED <<level, lives>>
    /\ scheduleNewProblem
    /\ UNCHANGED <<gameState, tableVars>>
    /\ setItemCalled' = FALSE

\* handleCorrectAnswer
handleCorrectAnswer ==
    /\ score' = score + 10 * level
    /\ IF scoreInLevel + 1 >= POINTS_TO_LEVEL_UP
       THEN levelUp
       ELSE /\ scoreInLevel' = scoreInLevel + 1
            /\ feedbackMessage' \in getRandomMessage("motivational", NumMotivationalMessages)
            /\ feedbackType' = "success"
            /\ UNCHANGED <<level, lives>>
    /\ scheduleNewProblem
    /\ UNCHANGED <<gameState, tableVars>>
    /\ setItemCalled' = FALSE

\* The life-exhaustion check with `< 0` for `<= 0`.
endOrContinue_BelowZero ==
    IF lives' < 0
    THEN /\ gameOver
         /\ UNCHANGED pendingNewProblem
    ELSE /\ scheduleNewProblem
         /\ UNCHANGED <<gameState, tableVars>>
         /\ setItemCalled' = FALSE

\* The life-exhaustion check shared by handleIncorrectAnswer and handleTimeOut
\* (lines 217-221 and 351-355), on the new number of lives.
endOrContinue ==
    IF lives' <= 0
    THEN /\ gameOver
         /\ UNCHANGED pendingNewProblem
    ELSE /\ scheduleNewProblem
         /\ UNCHANGED <<gameState, tableVars>>
         /\ setItemCalled' = FALSE

\* handleIncorrectAnswer
handleIncorrectAnswer ==
    /\ lives' = lives - 1
    /\ feedbackMessage' \in Explanation(currentProblem)
    /\ feedbackType' = "error"
    /\ UNCHANGED <<level, score, scoreInLevel>>
    /\ endOrContinue

\* handleTimeOut without the setTimeout of line 354.
handleTimeOut_NoNextProblem ==
    /\ clearTimer
    /\ lives' = lives - 1
    /\ feedbackMessage' = [kind |-> "timeOut", arg |-> 0]
    /\ feedbackType' = "error"
    /\ UNCHANGED <<level, score, scoreInLevel>>
    /\ IF lives' <= 0
       THEN /\ gameOver
            /\ UNCHANGED pendingNewProblem
       ELSE /\ UNCHANGED <<gameState, tableVars, pendingNewProblem>>
            /\ setItemCalled' = FALSE

\* handleTimeOut
handleTimeOut ==
    /\ clearTimer
    /\ lives' = lives - 1
    /\ feedbackMessage' = [kind |-> "timeOut", arg |-> 0]
    /\ feedbackType' = "error"
    /\ UNCHANGED <<level, score, scoreInLevel>>
    /\ endOrContinue

(***************************************************************************)
(* The commands the page offers in each state.  The template is not part   *)
(* of the sources; the states are those of the transition list of the      *)
(* specification (section 4.2): a command is offered in the states that    *)
(* list has an edge from.                                                  *)
(***************************************************************************)
Offered(command) ==
    CASE command = "selectOperationAndStart" -> {"menu"}
      [] command = "showChallengeMenu" -> {"menu"}
      [] command = "viewHighScores" -> {"menu"}
      [] command = "startChallenge" -> {"challengeMenu"}
      [] command = "submitAnswer" -> {"playing"}
      [] command = "playAgain" -> {"gameOver"}
      [] command = "goToMenu" -> {"gameOver", "highScores"}

(***************************************************************************)
(* The state after construction and ngOnInit.                              *)
(***************************************************************************)
InitFrom(items) ==
    /\ gameState = "menu"
    /\ gameMode = "classic"
    /\ level = 1
    /\ lives = InitialLives
    /\ score = 0
    /\ scoreInLevel = 0
    /\ currentOperation = "add"
    /\ currentProblem = NoProblem
    /\ userAnswer = EmptyString
    /\ userFactor1 = EmptyString
    /\ userFactor2 = EmptyString
    /\ feedbackMessage = NoMessage
    /\ feedbackType = "null"
    /\ storage \in items
    /\ highScores = loadHighScores(storage)
    /\ isNewHighScore = FALSE
    /\ timerInterval = FALSE
    /\ timerValue = 0
    /\ initialTimerValue = 10
    /\ pendingNewProblem = 0
    /\ setItemCalled = FALSE
    /\ sessions = 0

Init == InitFrom({NoItem})

(***************************************************************************)
(* Commands.                                                               *)
(***************************************************************************)
\* The body shared by selectOperationAndStart and startChallenge.
startSession(op, mode) ==
    /\ sessions' = sessions + 1
    /\ currentOperation' = op
    /\ gameMode' = mode
    /\ resetGame
    /\ gameState' = "playing"
    /\ newProblem(1, mode, op)
    /\ UNCHANGED <<highScores, storage, pendingNewProblem>>
    /\ setItemCalled' = FALSE

SelectOperationAndStart(op) ==
    /\ gameState \in Offered("selectOperationAndStart")
    /\ startSession(op, "classic")

StartChallenge(op) ==
    /\ gameState \in Offered("startChallenge")
    /\ startSession(op, "challenge")

ShowChallengeMenu ==
    /\ gameState \in Offered("showChallengeMenu")
    /\ gameState' = "challengeMenu"
    /\ setItemCalled' = FALSE
    /\ UNCHANGED <<gameMode, scoreVars, currentOperation, currentProblem, inputVars,
                   feedbackVars, tableVars, timerVars, pendingNewProblem, sessions>>

ViewHighScores ==
    /\ gameState \in Offered("viewHighScores")
    /\ gameState' = "highScores"
    /\ setItemCalled' = FALSE
    /\ UNCHANGED <<gameMode, scoreVars, currentOperation, currentProblem, inputVars,
                   feedbackVars, tableVars, timerVars, pendingNewProblem, sessions>>

PlayAgain ==
    /\ gameState \in Offered("playAgain")
    /\ startSession(currentOperation, gameMode)

GoToMenu ==
    /\ gameState \in Offered("goToMenu")
    /\ clearTimer
    /\ resetGame
    /\ gameState' = "menu"
    /\ setItemCalled' = FALSE
    /\ UNCHANGED <<gameMode, currentOperation, currentProblem, inputVars, feedbackVars,
                   highScores, storage, timerValue, initialTimerValue,
                   pendingNewProblem, sessions>>

\* The player edits the answer field of a problem with one answer.
TypeAnswer(text) ==
    /\ gameState \in Offered("submitAnswer")
    /\ currentProblem.type # "factor"
    /\ userAnswer' = text
    /\ userAnswer' # userAnswer
    /\ setItemCalled' = FALSE
    /\ UNCHANGED <<gameState, gameMode, scoreVars, currentOperation, currentProblem,
                   userFactor1, userFactor2, feedbackVars, tableVars, timerVars,
                   pendingNewProblem, sessions>>

\* The player edits the two fields of a factor problem.
TypeFactors(text1, text2) ==
    /\ gameState \in Offered("submitAnswer")
    /\ currentProblem.type = "factor"
    /\ userFactor1' = text1
    /\ userFactor2' = text2
    /\ <<text1, text2>> # <<userFactor1, userFactor2>>
    /\ setItemCalled' = FALSE
    /\ UNCHANGED <<gameState, gameMode, scoreVars, currentOperation, currentProblem,
                   userAnswer, feedbackVars, tableVars, timerVars,
                   pendingNewProblem, sessions>>

\* The early returns with a factor pair ignored only when both fields are empty.
submissionIgnored_BothFactors ==
    \/ currentProblem = NoProblem
    \/ currentProblem.type # "factor" /\ userAnswer = EmptyString
    \/ currentProblem.type = "factor" /\ (userFactor1 = EmptyString /\ userFactor2 = EmptyString)

\* The early returns of submitAnswer (lines 160, 167, 168).
submissionIgnored ==
    \/ currentProblem = NoProblem
    \/ currentProblem.type # "factor" /\ userAnswer = EmptyString
    \/ currentProblem.type = "factor" /\ (userFactor1 = EmptyString \/ userFactor2 = EmptyString)

\* The answer submitAnswer hands to checkAnswer (lines 162-164).
submission == [answer |-> userAnswer, factor1 |-> userFactor1, factor2 |-> userFactor2]

\* submitAnswer
SubmitAnswer ==
    /\ gameState \in Offered("submitAnswer")
    /\ clearTimer
    /\ UNCHANGED <<timerValue, initialTimerValue, gameMode, currentOperation,
                   currentProblem, inputVars, sessions>>
    /\ IF submissionIgnored
       THEN /\ UNCHANGED <<gameState, scoreVars, feedbackVars, tableVars, pendingNewProblem>>
            /\ setItemCalled' = FALSE
       ELSE IF checkAnswer(currentProblem, submission)
            THEN handleCorrectAnswer
            ELSE handleIncorrectAnswer

(***************************************************************************)
(* Timer events.                                                           *)
(***************************************************************************)
\* The setInterval callback of startTimer (lines 330-335).
TimerTick ==
    /\ timerInterval
    /\ timerValue' = timerValue - 1
    /\ UNCHANGED <<initialTimerValue, gameMode, currentOperation, currentProblem,
                   inputVars, sessions>>
    /\ IF timerValue' <= 0
       THEN handleTimeOut
       ELSE /\ UNCHANGED <<gameState, scoreVars, feedbackVars, tableVars, timerInterval,
                           pendingNewProblem>>
            /\ setItemCalled' = FALSE

\* A setTimeout callback of lines 187, 220 or 354 runs: newProblem().
NewProblemCallback ==
    /\ pendingNewProblem > 0
    /\ pendingNewProblem' = pendingNewProblem - 1
    /\ newProblem(level, gameMode, currentOperation)
    /\ setItemCalled' = FALSE
    /\ UNCHANGED <<gameState, gameMode, scoreVars, currentOperation, tableVars, sessions>>

\* The part of the state space explored: levels, outstanding callbacks and
\* sessions up to the given numbers.
Within(maxLevel, maxPending, maxSessions) ==
    /\ level <= maxLevel
    /\ pendingNewProblem <= maxPending
    /\ sessions <= maxSessions

(***************************************************************************)
(* The game with one operation on the menu, from an empty storage.         *)
(***************************************************************************)
MenuOperations == {"add"}
Bounded == Within(MaxLevel, MaxPending, MaxSessions)

Next ==
    \/ (\E op \in MenuOperations : SelectOperationAndStart(op)) /\ Bounded'
    \/ (\E op \in MenuOperations : StartChallenge(op)) /\ Bounded'
    \/ ShowChallengeMenu /\ Bounded'
    \/ ViewHighScores /\ Bounded'
    \/ PlayAgain /\ Bounded'
    \/ GoToMenu /\ Bounded'
    \/ (\E text \in Inputs : TypeAnswer(text)) /\ Bounded'
    \/ SubmitAnswer /\ Bounded'
    \/ TimerTick /\ Bounded'
    \/ NewProblemCallback /\ Bounded'

Spec == Init /\ [][Next]_vars

(***************************************************************************)
(* The game with two operations on the menu, from a storage that is empty  *)
(* or holds a saved table, explored over the first level.                  *)
(***************************************************************************)
TableMaxLevel == 1
TableMenuOperations == {"add", "multiply"}
TableBounded == Within(TableMaxLevel, MaxPending, MaxSessions)

TableInit == InitFrom(StoredItems)

TableNext ==
    \/ (\E op \in TableMenuOperations : SelectOperationAndStart(op)) /\ TableBounded'
    \/ (\E op \in TableMenuOperations : StartChallenge(op)) /\ TableBounded'
    \/ ShowChallengeMenu /\ TableBounded'
    \/ ViewHighScores /\ TableBounded'
    \/ PlayAgain /\ TableBounded'
    \/ GoToMenu /\ TableBounded'
    \/ (\E text \in Inputs : TypeAnswer(text)) /\ TableBounded'
    \/ SubmitAnswer /\ TableBounded'
    \/ TimerTick /\ TableBounded'
    \/ NewProblemCallback /\ TableBounded'

TableSpec == TableInit /\ [][TableNext]_vars

(***************************************************************************)
(* The game explored up to the level at which the countdown has long       *)
(* reached its shortest duration; a second session is explored over its    *)
(* first level only.                                                       *)
(***************************************************************************)
LevelsMaxLevel == 20
LevelsBounded ==
    /\ Within(LevelsMaxLevel, MaxPending, MaxSessions)
    /\ sessions > 1 => level = 1

LevelsNext ==
    \/ (\E op \in MenuOperations : SelectOperationAndStart(op)) /\ LevelsBounded'
    \/ (\E op \in MenuOperations : StartChallenge(op)) /\ LevelsBounded'
    \/ ShowChallengeMenu /\ LevelsBounded'
    \/ ViewHighScores /\ LevelsBounded'
    \/ PlayAgain /\ LevelsBounded'
    \/ GoToMenu /\ LevelsBounded'
    \/ (\E text \in Inputs : TypeAnswer(text)) /\ LevelsBounded'
    \/ SubmitAnswer /\ LevelsBounded'
    \/ TimerTick /\ LevelsBounded'
    \/ NewProblemCallback /\ LevelsBounded'

LevelsSpec == Init /\ [][LevelsNext]_vars

(***************************************************************************)
(* The game with the factor and the random operation on the menu, explored *)
(* over the first level.                                                   *)
(***************************************************************************)
OpsMaxLevel == 1
OpsMenuOperations == {"factor", "random"}
OpsBounded == Within(OpsMaxLevel, MaxPending, MaxSessions)

OpsNext ==
    \/ (\E op \in OpsMenuOperations : SelectOperationAndStart(op)) /\ OpsBounded'
    \/ (\E op \in OpsMenuOperations : StartChallenge(op)) /\ OpsBounded'
    \/ ShowChallengeMenu /\ OpsBounded'
    \/ ViewHighScores /\ OpsBounded'
    \/ PlayAgain /\ OpsBounded'
    \/ GoToMenu /\ OpsBounded'
    \/ (\E text \in Inputs : TypeAnswer(text)) /\ OpsBounded'
    \/ (\E text1, text2 \in Inputs : TypeFactors(text1, text2)) /\ OpsBounded'
    \/ SubmitAnswer /\ OpsBounded'
    \/ TimerTick /\ OpsBounded'
    \/ NewProblemCallback /\ OpsBounded'

OpsSpec == Init /\ [][OpsNext]_vars

(***************************************************************************)
(* The challenge game of a player who never submits: every command but     *)
(* submitAnswer, with the interval and the delayed callbacks running.      *)
(***************************************************************************)
IdleNext ==
    \/ (\E op \in MenuOperations : SelectOperationAndStart(op)) /\ Bounded'
    \/ (\E op \in MenuOperations : StartChallenge(op)) /\ Bounded'
    \/ ShowChallengeMenu /\ Bounded'
    \/ ViewHighScores /\ Bounded'
    \/ PlayAgain /\ Bounded'
    \/ GoToMenu /\ Bounded'
    \/ (\E text \in Inputs : TypeAnswer(text)) /\ Bounded'
    \/ TimerTick /\ Bounded'
    \/ NewProblemCallback /\ Bounded'

\* setInterval runs its callback every second while the interval is set, and
\* setTimeout runs its callback once its delay has passed.
IdleFairness ==
    /\ WF_vars(TimerTick /\ Bounded')
    /\ WF_vars(NewProblemCallback /\ Bounded')

IdleSpec == Init /\ [][IdleNext]_vars /\ IdleFairness

(***************************************************************************)
(* The generator on its own: generateProblem(level, op) for every level up *)
(* to GenMaxLevel and every basic operation, over the whole of its random  *)
(* ranges (GenSpan is not less than the widest of them).                   *)
(***************************************************************************)
GenMaxLevel == 6
GenSpan == 100

\* The state a session is in when newProblem calls the generator at level lvl.
AtLevel(lvl, ops) ==
    /\ gameState = "playing"
    /\ gameMode = "classic"
    /\ level = lvl
    /\ lives = InitialLives
    /\ score = 25 * lvl * (lvl - 1)
    /\ scoreInLevel = 0
    /\ currentOperation \in ops
    /\ userAnswer = EmptyString
    /\ feedbackMessage = NoMessage
    /\ feedbackType = "null"
    /\ storage = NoItem
    /\ highScores = loadHighScores(storage)
    /\ isNewHighScore = FALSE
    /\ timerInterval = FALSE
    /\ timerValue = 0
    /\ initialTimerValue = 10
    /\ pendingNewProblem = 0
    /\ setItemCalled = FALSE
    /\ sessions = 1

GenInit ==
    /\ \E lvl \in 1..GenMaxLevel : AtLevel(lvl, basicOps)
    /\ currentProblem = NoProblem
    /\ userFactor1 = EmptyString
    /\ userFactor2 = EmptyString

\* const problem = this.mathService.generateProblem(this.level(), operationForProblem);
\* this.currentProblem.set(problem)                                (lines 150-151),
\* applied once, to the level and operation of the initial state.
GenerateProblem ==
    /\ currentProblem = NoProblem
    /\ \E problem \in generateProblem(level, currentOperation, GenSpan) :
          currentProblem' = problem
    /\ UNCHANGED <<gameState, gameMode, scoreVars, currentOperation, inputVars,
                   feedbackVars, tableVars, timerVars, pendingNewProblem,
                   setItemCalled, sessions>>

GenNext == GenerateProblem

GenSpec == GenInit /\ [][GenNext]_vars

(***************************************************************************)
(* checkAnswer on factor problems: a factor game at a level up to          *)
(* CheckMaxLevel with any problem the generator returns on the screen and  *)
(* any two integers of -MaxTyped..MaxTyped typed into the fields.          *)
(***************************************************************************)
CheckMaxLevel == 2
MaxTyped == 35

\* The decimal numeral of a natural number and of an integer, as typed.
RECURSIVE NatNumeral(_)
NatNumeral(n) ==
    LET digit == CHOOSE c \in DigitChars : DigitVal(c) = n % 10
    IN  IF n < 10 THEN <<digit>> ELSE Append(NatNumeral(n \div 10), digit)

Numeral(n) == IF n < 0 THEN <<"-">> \o NatNumeral(0 - n) ELSE NatNumeral(n)

TypedIntegers == (0 - MaxTyped)..MaxTyped
FactorInputs == {Numeral(n) : n \in TypedIntegers}

CheckInit ==
    /\ \E lvl \in 1..CheckMaxLevel :
          /\ AtLevel(lvl, {"factor"})
          /\ currentProblem \in generateProblem(lvl, "factor", GenSpan)
    /\ userFactor1 \in FactorInputs
    /\ userFactor2 \in FactorInputs

CheckBounded == Within(CheckMaxLevel, MaxPending, MaxSessions)

CheckNext == SubmitAnswer /\ CheckBounded'

CheckSpec == CheckInit /\ [][CheckNext]_vars

(***************************************************************************)
(* Steps the claims speak of, recognised from the two states of a step.    *)
(***************************************************************************)
\* A session was started (selectOperationAndStart, startChallenge, playAgain).
SessionStarted == sessions' = sessions + 1

\* gameOver() ran: it is only ever called after a life was taken and none is left.
GameOverCalled == lives' = lives - 1 /\ lives' <= 0

\* The interval callback brought the countdown to 0: handleTimeOut ran.
TimedOut == TimerTick /\ timerValue' <= 0

\* submitAnswer ran on an answer checkAnswer accepts / rejects.
AnsweredCorrectly == SubmitAnswer /\ ~submissionIgnored /\ checkAnswer(currentProblem, submission)
AnsweredIncorrectly == SubmitAnswer /\ ~submissionIgnored /\ ~checkAnswer(currentProblem, submission)

(***************************************************************************)
(* C1: in every reachable state lives is not negative.                     *)
(***************************************************************************)
C1_LivesNeverNegative == lives >= 0

(***************************************************************************)
(* C2: starting a classic session, submitting an answer and ending a game  *)
(* (gameOver, goToMenu) each leave no countdown timer running; a timer     *)
(* that runs after a step is the one a challenge start or a new problem    *)
(* of that step has started.                                               *)
(***************************************************************************)
C2_TimerCancelledBeforeProceeding ==
    [][ (\/ SessionStarted /\ gameMode' = "classic"
         \/ SubmitAnswer
         \/ GameOverCalled
         \/ GoToMenu)
        => ~timerInterval' ]_vars

(***************************************************************************)
(* C3: every change of gameState follows one of the listed edges.          *)
(***************************************************************************)
ListedEdges ==
    { <<"menu", "challengeMenu">>, <<"menu", "playing">>, <<"challengeMenu", "playing">>,
      <<"playing", "playing">>, <<"playing", "gameOver">>, <<"gameOver", "playing">>,
      <<"gameOver", "menu">>, <<"menu", "highScores">>, <<"highScores", "menu">> }

C3_ListedEdgesOnly ==
    [][ gameState' # gameState => <<gameState, gameState'>> \in ListedEdges ]_vars

IsSortedDesc(list) == \A i \in 1..(Len(list) - 1) : list[i] >= list[i + 1]

C5_ListsBoundedSorted ==
    \A mode \in GameModes, op \in Operations :
        /\ Len(highScores[mode][op]) <= 5
        /\ IsSortedDesc(highScores[mode][op])

\* A score has entered a list that was full.
C5_Witness ==
    /\ Len(highScores["classic"]["add"]) = 5
    /\ highScores["classic"]["add"] # FullList
    /\ gameState = "gameOver"

(***************************************************************************)
(* C6: on game over with a non-zero score, if the list of the active       *)
(* (mode, operation) has fewer than 5 entries or the score exceeds its     *)
(* minimum, the new list is the 5 largest of the old entries and the       *)
(* score, sorted descending, the flag is set and the table is persisted;   *)
(* otherwise the table is unchanged and nothing is written to storage.     *)
(* The lists of all other pairs are unchanged.                             *)
(***************************************************************************)
InsertAt(list, k, x) == SubSeq(list, 1, k - 1) \o <<x>> \o SubSeq(list, k, Len(list))

\* new is the (at most 5) largest of old and x in non-increasing order, old sorted.
IsTop5With(new, old, x) ==
    \E k \in 1..(Len(old) + 1) :
        /\ IsSortedDesc(InsertAt(old, k, x))
        /\ new = SubSeq(InsertAt(old, k, x), 1, Min2(5, Len(old) + 1))

C6_HighScoreUpdate ==
    [][ GameOverCalled /\ score # 0 =>
          LET old == highScores[gameMode][currentOperation]
          IN  /\ \A mode \in GameModes, op \in Operations :
                    <<mode, op>> # <<gameMode, currentOperation>>
                        => highScores'[mode][op] = highScores[mode][op]
              /\ IF Len(old) < 5 \/ score > MinOf(old)
                 THEN /\ IsTop5With(highScores'[gameMode][currentOperation], old, score)
                      /\ isNewHighScore'
                      /\ storage' = JSONstringify(highScores')
                      /\ setItemCalled'
                 ELSE /\ highScores' = highScores
                      /\ storage' = storage
                      /\ ~setItemCalled' ]_vars

(***************************************************************************)
(* C7: when a game ends with score 0 the table in memory and in storage    *)
(* is unchanged and the new-high-score flag is not set; no high-score      *)
(* list, in memory or in storage, ever contains 0.                         *)
(***************************************************************************)
NoZeroIn(table) ==
    \A mode \in GameModes, op \in Operations :
        \A i \in 1..Len(table[mode][op]) : table[mode][op][i] # 0

C7_ZeroNeverRecorded ==
    /\ NoZeroIn(highScores)
    /\ [][ /\ (GameOverCalled /\ score = 0 =>
                 /\ highScores' = highScores
                 /\ storage' = storage
                 /\ ~setItemCalled'
                 /\ ~isNewHighScore')
           /\ NoZeroIn(highScores')
           /\ NoZeroIn(storage'.text) ]_vars

\* A game has ended with score 0 over a table that has entries.
C7_Witness ==
    /\ gameState = "gameOver"
    /\ score = 0
    /\ lives = 0
    /\ highScores = SavedTable

(***************************************************************************)
(* C8: a correct answer that brings scoreInLevel to 5 raises level by      *)
(* exactly 1, resets scoreInLevel to 0 and lives to 3 in the same step;    *)
(* level rises in no other way; scoreInLevel returns to 0 only at a        *)
(* level-up or a game reset; scoreInLevel stays within 0..5.               *)
(***************************************************************************)
C8_LevelUp ==
    [][ /\ (AnsweredCorrectly /\ scoreInLevel + 1 = 5 =>
                level' = level + 1 /\ scoreInLevel' = 0 /\ lives' = 3)
        /\ (level' > level =>
                AnsweredCorrectly /\ scoreInLevel + 1 = 5 /\ level' = level + 1)
        /\ (scoreInLevel # 0 /\ scoreInLevel' = 0 =>
                level' = level + 1 \/ SessionStarted \/ GoToMenu)
        /\ scoreInLevel' \in 0..5 ]_vars

\* A level-up has happened.
C8_Witness ==
    /\ level = 2
    /\ scoreInLevel = 0
    /\ lives = 3
    /\ score = 50
    /\ feedbackMessage.kind = "levelUp"

(***************************************************************************)
(* C9: the countdown reaches 0 only in challenge mode; the timeout then    *)
(* takes exactly one life, leaves score, level and scoreInLevel unchanged, *)
(* and ends the game if no life is left, else schedules the next problem.  *)
(***************************************************************************)
C9_TimeoutOnlyInChallenge ==
    [][ TimedOut =>
          /\ gameMode = "challenge"
          /\ lives' = lives - 1
          /\ UNCHANGED <<score, level, scoreInLevel>>
          /\ IF lives' <= 0
             THEN gameState' = "gameOver"
             ELSE pendingNewProblem' = pendingNewProblem + 1 ]_vars

(***************************************************************************)
(* C10: every new problem generated in challenge mode restarts the         *)
(* countdown with remaining time = initial duration =                      *)
(* max(5, 12 - floor(level/2)) for the level in force (10 at level 5, 5 at *)
(* level 20); a tick takes 1 off; while a timer is active                  *)
(* 0 <= remaining <= initial duration and 5 <= initial duration <= 12.     *)
(***************************************************************************)
C10_TimerDuration ==
    [][ /\ ((NewProblemCallback \/ SessionStarted) /\ gameMode' = "challenge" =>
              /\ timerInterval'
              /\ timerValue' = initialTimerValue'
              /\ initialTimerValue' =
                    (IF 12 - (level' \div 2) >= 5 THEN 12 - (level' \div 2) ELSE 5)
              /\ (level' = 5 => timerValue' = 10)
              /\ (level' = 20 => timerValue' = 5))
        /\ (TimerTick => timerValue' = timerValue - 1)
        /\ (timerInterval' =>
              /\ 0 <= timerValue' /\ timerValue' <= initialTimerValue'
              /\ 5 <= initialTimerValue' /\ initialTimerValue' <= 12) ]_vars

\* The countdown of a level-20 problem is running and has ticked.
C10_Witness ==
    /\ level = 20
    /\ gameMode = "challenge"
    /\ timerInterval
    /\ initialTimerValue = 5
    /\ timerValue = 1

(***************************************************************************)
(* C11: an empty submission (empty answer for a problem that is not a      *)
(* factor problem, either field empty for a factor problem) changes none   *)
(* of score, lives, level, scoreInLevel, currentProblem, gameState and the *)
(* feedback message, and schedules no next problem.                        *)
(***************************************************************************)
EmptySubmission ==
    \/ currentProblem.type \in basicOps /\ userAnswer = EmptyString
    \/ currentProblem.type = "factor" /\ (userFactor1 = EmptyString \/ userFactor2 = EmptyString)

C11_EmptySubmissionRejected ==
    [][ SubmitAnswer /\ EmptySubmission =>
          UNCHANGED <<score, lives, level, scoreInLevel, currentProblem, gameState,
                      feedbackMessage, pendingNewProblem>> ]_vars

\* A factor pair with its second field empty has been submitted: the countdown
\* of the challenge is off and nothing else has happened to the problem.
C11_Witness ==
    /\ gameState = "playing"
    /\ gameMode = "challenge"
    /\ currentProblem.type = "factor"
    /\ userFactor1 = <<"2">>
    /\ userFactor2 = EmptyString
    /\ ~timerInterval
    /\ pendingNewProblem = 0
    /\ feedbackMessage = NoMessage
    /\ lives = 3

(***************************************************************************)
(* C12: the generator is never handed 'random': with currentOperation =    *)
(* random every new problem is one of add, subtract, multiply, divide, so  *)
(* currentProblem.type is never 'random', and never 'factor' (nor missing) *)
(* in a random-operation game.                                             *)
(***************************************************************************)
C12_RandomResolved ==
    /\ "random" \notin operationForProblem(currentOperation)
    /\ currentProblem.type # "random"
    /\ currentOperation = "random" => currentProblem.type \in basicOps

\* A random-operation game in which a problem was answered and the next one
\* is a division.
C12_Witness ==
    /\ gameState = "playing"
    /\ currentOperation = "random"
    /\ currentProblem.type = "divide"
    /\ score > 0
    /\ feedbackMessage = NoMessage

(***************************************************************************)
(* C13: every problem generateProblem(L, op) returns for a basic operation *)
(* has its operands within the bounds of level L (add, subtract:           *)
(* 1..10^(floor((L-1)/3)+1), the second operand of a subtraction in        *)
(* 1..operand1; multiply: 1..floor(L/2)+5 and 1..floor(L/3)+4; divide:     *)
(* answer in 1..floor(L/3)+5, divisor in 1..floor(L/2)+5); its answer is   *)
(* the result of the operation on the operands; the answer of a            *)
(* subtraction is not negative; operand1 = answer x operand2 in a          *)
(* division.                                                               *)
(***************************************************************************)
C13_GeneratedWithinBounds ==
    LET p == currentProblem
        L == level
        unit == 10 ^ (((L - 1) \div 3) + 1)
    IN  currentProblem # NoProblem =>
          /\ p.type = currentOperation
          /\ Len(p.answer) = 1
          /\ p.type = "add" =>
                /\ p.num1 \in 1..unit
                /\ p.num2 \in 1..unit
                /\ p.answer[1] = p.num1 + p.num2
          /\ p.type = "subtract" =>
                /\ p.num1 \in 1..unit
                /\ p.num2 \in 1..p.num1
                /\ p.answer[1] = p.num1 - p.num2
                /\ p.answer[1] >= 0
          /\ p.type = "multiply" =>
                /\ p.num1 \in 1..((L \div 2) + 5)
                /\ p.num2 \in 1..((L \div 3) + 4)
                /\ p.answer[1] = p.num1 * p.num2
          /\ p.type = "divide" =>
                /\ p.answer[1] \in 1..((L \div 3) + 5)
                /\ p.num2 \in 1..((L \div 2) + 5)
                /\ p.num1 = p.answer[1] * p.num2

\* The generator has returned the subtraction 100 - 100 at level 4.
C13_Witness ==
    /\ level = 4
    /\ currentProblem.type = "subtract"
    /\ currentProblem.num1 = 100
    /\ currentProblem.num2 = 100
    /\ currentProblem.answer = <<0>>

(***************************************************************************)
(* C14: for a factor problem, whose target is the product of the two       *)
(* generated factors, checkAnswer accepts a submitted pair of integers     *)
(* (a, b) exactly when a x b is the target, and gives the same result for  *)
(* (b, a); the submission of the pair earns the points of a correct        *)
(* answer exactly in that case.                                            *)
(***************************************************************************)
\* The integer a typed numeral denotes.
IntegerTyped(text) == CHOOSE n \in TypedIntegers : Numeral(n) = text

C14_AnyFactorizationAccepted ==
    [][ SubmitAnswer /\ currentProblem.type = "factor"
            /\ userFactor1 \in FactorInputs /\ userFactor2 \in FactorInputs =>
          LET a == IntegerTyped(userFactor1)
              b == IntegerTyped(userFactor2)
              target == currentProblem.answer[1] * currentProblem.answer[2]
              swapped == [answer |-> userAnswer, factor1 |-> userFactor2, factor2 |-> userFactor1]
          IN  /\ checkAnswer(currentProblem, submission) <=> (a * b = target)
              /\ checkAnswer(currentProblem, swapped) <=> checkAnswer(currentProblem, submission)
              /\ (score' = score + 10 * level) <=> (a * b = target)
              /\ (lives' = lives - 1) <=> (a * b # target) ]_vars

\* The problem generated as (3, 4) was answered with 2 and 6 and the answer
\* was accepted.
C14_Witness ==
    /\ currentProblem.type = "factor"
    /\ currentProblem.answer = <<3, 4>>
    /\ userFactor1 = <<"2">>
    /\ userFactor2 = <<"6">>
    /\ score = 10
    /\ lives = 3
    /\ feedbackType = "success"

(***************************************************************************)
(* C15: between the generation of a problem and the generation of the      *)
(* next, at most one outcome (correct answer, incorrect answer, timeout)   *)
(* changes score or lives.  newProblem clears the feedback message and     *)
(* every outcome sets one, so a message on the screen tells that the       *)
(* problem has had its outcome: score and lives change (a game reset       *)
(* apart) only while there is none.                                        *)
(***************************************************************************)
C15_ResolvedAtMostOnce ==
    [][ (score' # score \/ lives' # lives) /\ ~SessionStarted /\ ~GoToMenu
            => feedbackMessage = NoMessage ]_vars

(***************************************************************************)
(* C16: between a game reset and the next, at most one entry is inserted   *)
(* into the high-score table.  The flag isNewHighScore is set by an        *)
(* insertion and cleared only by a reset, so no insertion happens while    *)
(* it is set.                                                              *)
(***************************************************************************)
C16_MergedAtMostOnce ==
    [][ highScores' # highScores => ~isNewHighScore ]_vars

(***************************************************************************)
(* C17: a delayed next-problem advance that runs after goToMenu (the game  *)
(* is in one of the menu states) or on the unresolved problem of a session *)
(* (no feedback message is on the screen) leaves currentProblem, the       *)
(* player's input and the timer alone; currentProblem changes only in      *)
(* steps that are in, or lead to, the playing state.                       *)
(***************************************************************************)
C17_NoStaleAdvance ==
    [][ /\ (/\ NewProblemCallback
            /\ \/ gameState \in {"menu", "challengeMenu", "highScores"}
               \/ gameState = "playing" /\ feedbackMessage = NoMessage
            => UNCHANGED <<currentProblem, inputVars, timerVars>>)
        /\ (currentProblem' # currentProblem => gameState' = "playing") ]_vars

(***************************************************************************)
(* C18: in every reachable state with gameState = playing and gameMode =   *)
(* challenge a countdown is active or a delayed next-problem advance is    *)
(* pending.                                                                *)
(***************************************************************************)
C18_ChallengeNeverStalls ==
    gameState = "playing" /\ gameMode = "challenge"
        => timerInterval \/ pendingNewProblem > 0

(***************************************************************************)
(* C19: in a challenge game in which the player never submits (and so      *)
(* never levels up), with the ticks of the interval and the delayed        *)
(* callbacks eventually run, the session reaches gameOver; lives start at  *)
(* 3, change only by a timeout and by 1 at each, and gameOver is reached   *)
(* with lives = 0 (after exactly 3 timeouts), score = 0 and no timer       *)
(* active.                                                                 *)
(***************************************************************************)
C19_IdleChallengeEnds ==
    /\ [][ /\ (SessionStarted => lives' = 3)
           /\ (TimedOut => lives' = lives - 1)
           /\ (lives' # lives /\ ~SessionStarted /\ ~GoToMenu => TimedOut)
           /\ level' = 1 ]_vars
    /\ [](gameState = "gameOver" => lives = 0 /\ score = 0 /\ ~timerInterval)
    /\ (gameState = "playing" /\ gameMode = "challenge") ~> (gameState = "gameOver")

\* The challenge of an idle player has ended on a timeout.
C19_Witness ==
    /\ gameState = "gameOver"
    /\ gameMode = "challenge"
    /\ lives = 0
    /\ score = 0
    /\ ~timerInterval
    /\ pendingNewProblem = 0
    /\ feedbackMessage.kind = "timeOut"

(***************************************************************************)
(* C20: in every reachable state                                           *)
(* score = 25 x level x (level - 1) + 10 x level x scoreInLevel; score is  *)
(* a multiple of 10, is 0 exactly when level = 1 and scoreInLevel = 0, and *)
(* does not decrease within a game.                                        *)
(***************************************************************************)
C20_ScoreFormula ==
    /\ [](/\ score = 25 * level * (level - 1) + 10 * level * scoreInLevel
          /\ score % 10 = 0
          /\ score = 0 <=> (level = 1 /\ scoreInLevel = 0))
    /\ [][ ~SessionStarted /\ ~GoToMenu => score' >= score ]_vars

\* Two correct answers into level 3.
C20_Witness ==
    /\ level = 3
    /\ scoreInLevel = 2
    /\ score = 210

====
